---- MODULE Spec2Model ----
(***************************************************************************)
(* Calendar booking agent: the availability engine and event creation of   *)
(* CalendarService (calendar_service.py), the four tools of BookingAgent   *)
(* and its per-session conversation memory (agent.py).                     *)
(*                                                                         *)
(* Time is counted in minutes.  A naive datetime is the number of minutes  *)
(* since 00:00 of the first modelled date; an aware datetime is a pair     *)
(* (local wall-clock minutes, UTC offset in minutes).                      *)
(***************************************************************************)
EXTENDS Integers, Sequences, FiniteSets, TLC

----------------------------------------------------------------------------
(* Bounds of the model *)

\* the calendar holds at most this many events (bookings stop being issued)
MaxEvents == 2
\* a session's memory holds at most this many messages (chat stops)
MaxHistory == 4
\* the wall clock advances at most this many half days
MaxTicks == 1

----------------------------------------------------------------------------
(* Program constants *)

OpenHour == 9
CloseHour == 17
StepMinutes == 30
DefaultDuration == 60
SlotLimit == 8
MinutesPerHour == 60
MinutesPerDay == 24 * MinutesPerHour
HalfDay == 12 * MinutesPerHour

----------------------------------------------------------------------------
(* Inputs *)

\* date strings "YYYY-MM-DD" as <<year, month, day>>; the last is no date
DateStrings == {<<2024, 1, 10>>, <<2024, 13, 1>>}
\* time strings "HH:MM" as the pair of their two numbers; 25:00 is no time
TimeStrings == {<<10, 30>>, <<25, 0>>}
\* duration strings; "abc" is not an integer literal
DurationValue == [s \in {"60", "0", "-30"} |->
                    IF s = "60" THEN 60 ELSE IF s = "0" THEN 0 ELSE -30]
DurationStrings == DOMAIN DurationValue \cup {"abc"}
Titles == {"Standup"}
\* durations get_available_slots is evaluated for
SlotDurations == {30, 60, 90, 480, 510}
\* UTC offsets (minutes) the backend's calendar may render timestamps in
TzOffsets == {0, 60}
\* what a failing backend call raises
Causes == {"HttpError 403"}
NoFailure == "none"
SessionIds == {"a", "b"}
Messages == {"book a meeting", "what is free?"}
Replies == {"done", "which day?"}

----------------------------------------------------------------------------
(* datetime helpers *)

\* the Gregorian calendar of the modelled year, 2024 (a leap year)
DaysIn == <<31, 29, 31, 30, 31, 30, 31, 31, 30, 31, 30, 31>>
DaysBefore == <<0, 31, 60, 91, 121, 152, 182, 213, 244, 274, 305, 335>>

\* datetime.strptime(date, '%Y-%m-%d'): raises unless date is a calendar date;
\* a naive datetime counts the minutes since 00:00 on 1 January
DateParses(date) ==
    /\ date[1] = 2024
    /\ date[2] \in 1..12
    /\ date[3] \in 1..DaysIn[date[2]]
Strptime(date) == (DaysBefore[date[2]] + date[3] - 1) * MinutesPerDay

\* strptime of 'HH:MM'
TimeParses(time) == time[1] \in 0..23 /\ time[2] \in 0..59
TimeOfDay(time) == time[1] * MinutesPerHour + time[2]

\* int(duration)
IntParses(duration) == duration \in DOMAIN DurationValue
IntOf(duration) == DurationValue[duration]

\* target_date.replace(hour=h, minute=0, second=0, microsecond=0)
ReplaceHour(t, h) == (t \div MinutesPerDay) * MinutesPerDay + h * MinutesPerHour

\* dt.strftime('%H:%M')
StrftimeHM(t) == <<(t % MinutesPerDay) \div MinutesPerHour, t % MinutesPerHour>>

\* dt.strftime('%Y-%m-%d')
StrftimeDate(t) ==
    LET day == t \div MinutesPerDay
        month == CHOOSE m \in 1..12 :
                    DaysBefore[m] <= day /\ day < DaysBefore[m] + DaysIn[m]
    IN <<2024, month, day - DaysBefore[month] + 1>>

\* An API timestamp: {'dateTime': <aware datetime>} or {'date': <date>}.
DateTimeStamp(local, offset) == [dateTime |-> [local |-> local, offset |-> offset]]
DateStamp(day) == [date |-> day]

\* datetime.fromisoformat(ts.get('dateTime', ts.get('date'))).replace(tzinfo=None):
\* the offset is dropped, the wall-clock reading is kept
StripTz(ts) ==
    IF "dateTime" \in DOMAIN ts THEN ts.dateTime.local
    ELSE ts.date * MinutesPerDay

\* dt.isoformat() of a naive datetime, and datetime.fromisoformat of it
IsoFormat(t) ==
    <<t \div MinutesPerDay, (t % MinutesPerDay) \div MinutesPerHour, t % MinutesPerHour>>
FromIsoFormat(iso) == iso[1] * MinutesPerDay + iso[2] * MinutesPerHour + iso[3]

----------------------------------------------------------------------------
(* State *)

VARIABLES
    calendar,   \* the backend's primary calendar: a sequence of event resources
    tzOffset,   \* the UTC offset the backend renders this calendar's times in
    now,        \* the wall clock (naive datetime)
    sessions,   \* BookingAgent.sessions: session id -> chat memory (messages)
    active,     \* the process_message call whose agent invocation is running
    shown,      \* per session: the slots its last check_availability listed
    booked,     \* per session: the last booking its agent asked for
    lastCall,   \* the last call served: its arguments, what the backend
                \* raised during it and what it returned
    preexisting,\* number of events the calendar held before any booking
    successes   \* number of book_appointment calls that reported success

vars == <<calendar, tzOffset, now, sessions, active, shown, booked, lastCall,
          preexisting, successes>>


----------------------------------------------------------------------------
(* The calendar backend, as CalendarService uses it *)

\* the instant (UTC minutes) an API timestamp denotes; an all-day date starts
\* at midnight of the calendar's time zone
Instant(ts, off) ==
    IF "dateTime" \in DOMAIN ts THEN ts.dateTime.local - ts.dateTime.offset
    ELSE ts.date * MinutesPerDay - off

\* orderBy='startTime'
RECURSIVE SortByStart(_, _)
SortByStart(evs, off) ==
    IF Len(evs) <= 1 THEN evs
    ELSE LET rest == SortByStart(Tail(evs), off)
             e == Head(evs)
             before == SelectSeq(rest, LAMBDA x :
                          Instant(x.start, off) < Instant(e.start, off))
             after == SelectSeq(rest, LAMBDA x :
                          ~(Instant(x.start, off) < Instant(e.start, off)))
         IN before \o <<e>> \o after

\* events().list(timeMin=tmin + 'Z', timeMax=tmax + 'Z', singleEvents=True,
\* orderBy='startTime'): the events that end after timeMin and start before
\* timeMax, both read as UTC
ListEvents(cal, off, tmin, tmax) ==
    SortByStart(SelectSeq(cal, LAMBDA e :
        Instant(e.end, off) > tmin /\ Instant(e.start, off) < tmax), off)

\* events().insert(body): the body's naive dateTime is read in its timeZone
\* ('UTC') and the stored event is rendered in the calendar's time zone
InsertEvent(cal, off, body) ==
    Append(cal, [id |-> Len(cal) + 1,
                 summary |-> body.summary,
                 description |-> body.description,
                 start |-> DateTimeStamp(FromIsoFormat(body.start.dateTime) + off, off),
                 end |-> DateTimeStamp(FromIsoFormat(body.end.dateTime) + off, off)])

----------------------------------------------------------------------------
(* CalendarService.get_available_slots *)

\* the conflict test of the inner loop
Conflicts(current_time, slot_end, event) ==
    LET event_start == StripTz(event.start)
        event_end == StripTz(event.end)
    IN current_time < event_end /\ slot_end > event_start

\* a variant in which each event overwrites the verdict of the ones before it
IsAvailable_LastEventDecides(current_time, slot_end, events) ==
    Len(events) = 0 \/ ~Conflicts(current_time, slot_end, events[Len(events)])

IsAvailable(current_time, slot_end, events) ==
    \A i \in 1..Len(events) : ~Conflicts(current_time, slot_end, events[i])

SlotDict(current_time, slot_end) ==
    [start_time |-> StrftimeHM(current_time),
     end_time |-> StrftimeHM(slot_end),
     datetime |-> IsoFormat(current_time)]

RECURSIVE SlotLoop(_, _, _, _)
SlotLoop(current_time, duration_minutes, end_time, events) ==
    IF current_time + duration_minutes <= end_time
    THEN LET slot_end == current_time + duration_minutes
         IN (IF IsAvailable(current_time, slot_end, events)
             THEN <<SlotDict(current_time, slot_end)>>
             ELSE <<>>)
            \o SlotLoop(current_time + StepMinutes, duration_minutes, end_time, events)
    ELSE <<>>

\* cause is what the backend's list call raises (NoFailure: it answers)
GetAvailableSlots(date, duration_minutes, cal, off, cause) ==
    IF ~DateParses(date) \/ cause # NoFailure
    THEN <<>>
    ELSE LET target_date == Strptime(date)
             start_time == ReplaceHour(target_date, OpenHour)
             end_time == ReplaceHour(target_date, CloseHour)
             events == ListEvents(cal, off, start_time, end_time)
         IN SlotLoop(start_time, duration_minutes, end_time, events)

----------------------------------------------------------------------------
(* CalendarService.create_event *)

EventBody(title, start_datetime, duration_minutes, description) ==
    LET start_time == FromIsoFormat(start_datetime)
        end_time == start_time + duration_minutes
    IN [summary |-> title,
        description |-> description,
        start |-> [dateTime |-> IsoFormat(start_time), timeZone |-> "UTC"],
        end |-> [dateTime |-> IsoFormat(end_time), timeZone |-> "UTC"]]

\* a variant in which the event is inserted and the call then fails anyway
CreateEventCalendar_InsertThenFail(cal, off, title, start_datetime, duration_minutes, cause) ==
    InsertEvent(cal, off, EventBody(title, start_datetime, duration_minutes, ""))

\* the calendar after create_event, and the dict it returns
CreateEventCalendar(cal, off, title, start_datetime, duration_minutes, cause) ==
    IF cause = NoFailure
    THEN InsertEvent(cal, off, EventBody(title, start_datetime, duration_minutes, ""))
    ELSE cal

CreateEventResult(cal, title, cause) ==
    IF cause = NoFailure
    THEN [success |-> TRUE, event_id |-> Len(cal) + 1, message |-> "created"]
    ELSE [success |-> FALSE, event_id |-> 0, message |-> cause]

----------------------------------------------------------------------------
(* CalendarService.get_events *)

GetEvents(date, cal, off, cause) ==
    IF ~DateParses(date) \/ cause # NoFailure
    THEN <<>>
    ELSE LET target_date == Strptime(date)
             start_time == ReplaceHour(target_date, 0)
             end_time == start_time + MinutesPerDay
             events == ListEvents(cal, off, start_time, end_time)
         IN [i \in 1..Len(events) |->
                [title |-> events[i].summary,
                 start_time |-> events[i].start,
                 description |-> events[i].description]]

----------------------------------------------------------------------------
(* The tools of BookingAgent._create_tools: what each returns *)

\* a variant that forgets the limit
FirstN_NoLimit(seq, n) == seq

FirstN(seq, n) == SubSeq(seq, 1, IF Len(seq) < n THEN Len(seq) ELSE n)

SlotLine(slot) == <<slot.start_time, slot.end_time>>

CheckAvailabilityText(date_str, cal, off, cause) ==
    LET slots == GetAvailableSlots(date_str, DefaultDuration, cal, off, cause)
    IN IF slots = <<>>
       THEN [kind |-> "NoSlots", date |-> date_str]
       ELSE [kind |-> "Available", date |-> date_str,
             lines |-> LET shownSlots == FirstN(slots, SlotLimit)
                       IN [i \in 1..Len(shownSlots) |-> SlotLine(shownSlots[i])]]

\* book_appointment raises ValueError before any backend call when the date,
\* the time or the duration does not parse
BookingParses(date, time, duration) ==
    DateParses(date) /\ TimeParses(time) /\ IntParses(duration)

BookStart(date, time) == IsoFormat(Strptime(date) + TimeOfDay(time))

BookAppointmentCalendar(cal, off, title, date, time, duration, cause) ==
    IF BookingParses(date, time, duration)
    THEN CreateEventCalendar(cal, off, title, BookStart(date, time),
                             IntOf(duration), cause)
    ELSE cal

BookAppointmentText(cal, title, date, time, duration, cause) ==
    IF ~BookingParses(date, time, duration)
    THEN [kind |-> "ErrorBooking",
          cause |-> "ValueError", requests |-> 0]
    ELSE LET res == CreateEventResult(cal, title, cause)
         IN IF res.success
            THEN [kind |-> "Booked", title |-> title,
                  date |-> date, time |-> time, requests |-> 1]
            ELSE [kind |-> "FailedToBook",
                  cause |-> res.message, requests |-> 1]

GetCurrentDateText(clock) ==
    [kind |-> "CurrentDate", date |-> StrftimeDate(clock)]

GetEventsForDateText(date, cal, off, cause) ==
    LET events == GetEvents(date, cal, off, cause)
    IN IF events = <<>>
       THEN [kind |-> "NoEvents", date |-> date]
       ELSE [kind |-> "Events", date |-> date,
             lines |-> [i \in 1..Len(events) |->
                          <<events[i].title, events[i].start_time>>]]

----------------------------------------------------------------------------
(* Initial state *)

NoRequest == [session |-> "none", message |-> ""]
NothingShown == [date |-> <<0, 0, 0>>, lines |-> <<>>]
NoBooking == [made |-> FALSE, date |-> <<0, 0, 0>>, time |-> <<0, 0>>,
              duration |-> "", seen |-> FALSE, kind |-> "none"]
Call(tool, args, raised, returned) ==
    [tool |-> tool, args |-> args, raised |-> raised, returned |-> returned]
NoCall == Call("none", <<>>, NoFailure, [kind |-> "none"])

\* naive datetime of 10 January, 00:00
Jan10 == Strptime(<<2024, 1, 10>>)

\* events the calendar may hold before the agent starts: none, a meeting on
\* 10 January 10:00-11:00 UTC, or an all-day event on 10 January
ExistingMeeting(off) ==
    [id |-> 1, summary |-> "Existing", description |-> "",
     start |-> DateTimeStamp(Jan10 + 10 * MinutesPerHour + off, off),
     end |-> DateTimeStamp(Jan10 + 11 * MinutesPerHour + off, off)]
ExistingAllDay ==
    [id |-> 1, summary |-> "Holiday", description |-> "",
     start |-> DateStamp(Jan10 \div MinutesPerDay),
     end |-> DateStamp(Jan10 \div MinutesPerDay + 1)]
InitialCalendars(off) == {<<>>, <<ExistingMeeting(off)>>, <<ExistingAllDay>>}

Init ==
    /\ tzOffset \in TzOffsets
    /\ calendar \in InitialCalendars(tzOffset)
    /\ preexisting = Len(calendar)
    /\ now = Jan10
    /\ sessions = << >>
    /\ active = NoRequest
    /\ shown = [s \in SessionIds |-> NothingShown]
    /\ booked = [s \in SessionIds |-> NoBooking]
    /\ lastCall = NoCall
    /\ successes = 0

----------------------------------------------------------------------------
(* BookingAgent.process_message.  The agent invocation it makes runs to      *)
(* completion before another request is served; while it runs the agent      *)
(* calls tools (the executor's cap on their number is not modelled: the      *)
(* same calls can be spread over several invocations).                       *)

HumanMessage(m) == [type |-> "human", content |-> m]
AIMessage(m) == [type |-> "ai", content |-> m]

\* entry: the session's memory is created on first use; the invocation starts
ProcessMessageBegin(s, m) ==
    /\ active = NoRequest
    /\ s \in DOMAIN sessions => Len(sessions[s]) + 2 <= MaxHistory
    /\ sessions' = IF s \in DOMAIN sessions THEN sessions
                   ELSE [x \in DOMAIN sessions \cup {s} |->
                            IF x = s THEN <<>> ELSE sessions[x]]
    /\ active' = [session |-> s, message |-> m]
    /\ UNCHANGED <<calendar, tzOffset, now, shown, booked, lastCall, preexisting,
                   successes>>

\* a variant that records the reply without the message it answers
MemoryAfterReply_DropsUserMessage(memory, message, output) ==
    Append(memory, AIMessage(output))

\* the memory after the invocation returned output
MemoryAfterReply(memory, message, output) ==
    Append(Append(memory, HumanMessage(message)), AIMessage(output))

\* the invocation returns: both messages are added to the session's memory
\* and the output is the response
ProcessMessageReturn(output) ==
    /\ active # NoRequest
    /\ sessions' = [sessions EXCEPT ![active.session] =
                       MemoryAfterReply(@, active.message, output)]
    /\ active' = NoRequest
    /\ lastCall' = Call("process_message", <<active.message, active.session>>,
                        NoFailure, [kind |-> "Output", content |-> output])
    /\ UNCHANGED <<calendar, tzOffset, now, shown, booked, preexisting, successes>>

\* the invocation raises: the apology is the response, the memory is as it was
ProcessMessageRaise(cause) ==
    /\ active # NoRequest
    /\ active' = NoRequest
    /\ lastCall' = Call("process_message", <<active.message, active.session>>,
                        cause, [kind |-> "Apology", cause |-> cause])
    /\ UNCHANGED <<calendar, tzOffset, now, sessions, shown, booked, preexisting,
                   successes>>

----------------------------------------------------------------------------
(* Tool calls made by the running invocation.  Every tool is a single-input *)
(* Tool (no args_schema): the executor hands its func one positional string. *)

ToolCall ==
    /\ active # NoRequest
    /\ UNCHANGED active

\* the backend is reached only when the arguments parse
Raised(parses, cause) == IF parses THEN cause ELSE NoFailure

\* check_availability takes one string: the call goes through
CheckAvailability(date_str, cause) ==
    /\ ToolCall
    /\ lastCall' = Call("check_availability", <<date_str>>,
                        Raised(DateParses(date_str), cause),
                        CheckAvailabilityText(date_str, calendar, tzOffset, cause))
    /\ shown' = [shown EXCEPT ![active.session] =
                    [date |-> date_str,
                     lines |-> IF lastCall'.returned.kind = "Available"
                               THEN lastCall'.returned.lines ELSE <<>>]]
    /\ UNCHANGED <<calendar, tzOffset, now, sessions, booked, preexisting, successes>>

\* get_events_for_date takes one string: the call goes through
GetEventsForDate(date, cause) ==
    /\ ToolCall
    /\ lastCall' = Call("get_events_for_date", <<date>>,
                        Raised(DateParses(date), cause),
                        GetEventsForDateText(date, calendar, tzOffset, cause))
    /\ UNCHANGED <<calendar, tzOffset, now, sessions, shown, booked, preexisting,
                   successes>>

\* whether a session's last availability listing holds the slot
WasShown(listing, date, time, duration) ==
    /\ listing.date = date
    /\ \E i \in 1..Len(listing.lines) :
          listing.lines[i] = <<time, StrftimeHM(TimeOfDay(time) + IntOf(duration))>>

\* what calling a function of the wrong arity with one string raises
TypeError == "TypeError"

\* the response of process_message when the invocation raised cause
Apology(cause) ==
    Call("process_message", <<active.message, active.session>>, cause,
         [kind |-> "Apology", cause |-> cause])

\* book_appointment requires title, date and time: called with the one string
\* the agent wrote (here the booking it asks for, as one text) it raises
\* TypeError at the call, outside its own try block; the error leaves the
\* invocation, process_message returns the apology and nothing is booked
AgentBookAppointment(input) ==
    /\ active # NoRequest
    /\ active' = NoRequest
    /\ lastCall' = Apology(TypeError)
    /\ booked' = [booked EXCEPT ![active.session] =
                     [made |-> TRUE, date |-> input[2], time |-> input[3],
                      duration |-> input[4],
                      seen |-> WasShown(shown[active.session], input[2], input[3],
                                        input[4]),
                      kind |-> TypeError]]
    /\ UNCHANGED <<calendar, tzOffset, now, sessions, shown, preexisting, successes>>

\* get_current_date takes no parameter: called with one string it raises
\* TypeError in the same way
AgentGetCurrentDate(input) ==
    /\ active # NoRequest
    /\ active' = NoRequest
    /\ lastCall' = Apology(TypeError)
    /\ UNCHANGED <<calendar, tzOffset, now, sessions, shown, booked, preexisting,
                   successes>>

----------------------------------------------------------------------------
(* The tool functions called with the parameters they declare, by a caller   *)
(* other than the agent's Tool wrapper, while no request is being served     *)

BookAppointment(title, date, time, duration, cause) ==
    /\ active = NoRequest
    /\ Len(calendar) < MaxEvents
    /\ calendar' = BookAppointmentCalendar(calendar, tzOffset, title, date, time,
                                           duration, cause)
    /\ lastCall' = Call("book_appointment", <<title, date, time, duration>>,
                        Raised(BookingParses(date, time, duration), cause),
                        BookAppointmentText(calendar, title, date, time, duration, cause))
    /\ successes' = IF lastCall'.returned.kind = "Booked" THEN successes + 1
                    ELSE successes
    /\ UNCHANGED <<tzOffset, now, sessions, active, shown, booked, preexisting>>

GetCurrentDate ==
    /\ active = NoRequest
    /\ lastCall' = Call("get_current_date", <<>>, NoFailure, GetCurrentDateText(now))
    /\ UNCHANGED <<calendar, tzOffset, now, sessions, active, shown, booked,
                   preexisting, successes>>

\* the wall clock advances
Tick ==
    /\ now < Jan10 + MaxTicks * HalfDay
    /\ now' = now + HalfDay
    /\ UNCHANGED <<calendar, tzOffset, sessions, active, shown, booked, lastCall,
                   preexisting, successes>>

Failures == Causes \cup {NoFailure}

\* the requests served for the given sessions, messages and agent outputs
Chat(ids, messages, outputs) ==
    \/ \E s \in ids, m \in messages : ProcessMessageBegin(s, m)
    \/ \E output \in outputs : ProcessMessageReturn(output)
    \/ \E c \in Causes : ProcessMessageRaise(c)

\* the tool calls of the agent, its one-string inputs taken from the given sets
AgentTools(dates, times, durations, failures) ==
    \/ \E d \in dates, c \in failures : CheckAvailability(d, c)
    \/ \E d \in dates, c \in failures : GetEventsForDate(d, c)
    \/ \E t \in Titles, d \in dates, tm \in times, du \in durations :
          AgentBookAppointment(<<t, d, tm, du>>)
    \/ \E input \in {""} : AgentGetCurrentDate(input)

\* the direct calls with arguments from the given sets
DirectCalls(dates, times, durations, failures) ==
    \/ \E t \in Titles, d \in dates, tm \in times, du \in durations, c \in failures :
          BookAppointment(t, d, tm, du, c)
    \/ GetCurrentDate

\* One conversation whose agent calls the tools, and direct calls of the tool
\* functions, with any of the modelled arguments, valid or not, against a
\* backend that may fail.
Next ==
    \/ Chat({"a"}, {"book a meeting"}, {"done"})
    \/ AgentTools(DateStrings, {<<10, 30>>}, {"60"}, Failures)
    \/ DirectCalls(DateStrings, TimeStrings, DurationStrings, Failures)
    \/ Tick

Spec == Init /\ [][Next]_vars

\* One conversation whose agent lists the slots of 10 January, and direct
\* bookings of meetings of every modelled length on it, against a backend
\* that answers: the calendars get_available_slots is evaluated on.
NextSlots ==
    \/ Chat({"a"}, {"what is free?"}, {"done"})
    \/ \E d \in {<<2024, 1, 10>>} : CheckAvailability(d, NoFailure)
    \/ \E t \in Titles, d \in {<<2024, 1, 10>>}, tm \in {<<10, 0>>, <<10, 30>>},
          du \in DOMAIN DurationValue :
          BookAppointment(t, d, tm, du, NoFailure)

SpecSlots == Init /\ [][NextSlots]_vars

\* Two conversations whose agents check 10 January and ask for hour-long
\* meetings at 10:30 on it.
NextRace ==
    \/ Chat(SessionIds, {"book a meeting"}, {"done"})
    \/ AgentTools({<<2024, 1, 10>>}, {<<10, 30>>}, {"60"}, Failures)

SpecRace == Init /\ [][NextRace]_vars

\* Two conversations with several messages and outputs; their agents list
\* the slots of 10 January and ask for the date.
NextChat ==
    \/ Chat(SessionIds, Messages, Replies)
    \/ \E d \in {<<2024, 1, 10>>} : CheckAvailability(d, NoFailure)
    \/ \E input \in {""} : AgentGetCurrentDate(input)

SpecChat == Init /\ [][NextChat]_vars

----------------------------------------------------------------------------
(* Vocabulary of the properties *)

ValidDates == {d \in DateStrings : DateParses(d)}

\* the slots get_available_slots returns when the backend answers
SlotsFor(date, duration_minutes, cal) ==
    GetAvailableSlots(date, duration_minutes, cal, tzOffset, NoFailure)

\* a returned slot as an interval of naive datetimes; the service reads its
\* naive datetimes as UTC (timeMin + 'Z', timeZone 'UTC')
SlotStart(slot) == FromIsoFormat(slot.datetime)

\* the events the backend returns for the working window of a date
WindowEvents(date, cal) ==
    ListEvents(cal, tzOffset, ReplaceHour(Strptime(date), OpenHour),
               ReplaceHour(Strptime(date), CloseHour))

\* half-open overlap of [aStart, aEnd) and [bStart, bEnd)
Overlaps(aStart, aEnd, bStart, bEnd) == aStart < bEnd /\ bStart < aEnd

\* [start, end) overlaps the time the event occupies
OverlapsEvent(start, end, event) ==
    Overlaps(start, end, Instant(event.start, tzOffset), Instant(event.end, tzOffset))

\* the candidate starts 09:00 + 30k whose slot ends by 17:00
CandidateStarts(date, duration_minutes) ==
    {t \in {Strptime(date) + OpenHour * MinutesPerHour + StepMinutes * k : k \in 0..16} :
        t + duration_minutes <= Strptime(date) + CloseHour * MinutesPerHour}

\* the events of cal at the positions in keep, in calendar order
RECURSIVE SubCalendar(_, _, _)
SubCalendar(cal, keep, i) ==
    IF i > Len(cal) THEN <<>>
    ELSE (IF i \in keep THEN <<cal[i]>> ELSE <<>>) \o SubCalendar(cal, keep, i + 1)

SeqRange(seq) == {seq[i] : i \in 1..Len(seq)}

----------------------------------------------------------------------------
(* C1 *)

\* C1: for every date and duration, no slot returned by get_available_slots
\* overlaps an event the backend returned for that date's window.
C1_NoReturnedSlotOverlapsAnEvent ==
    \A d \in ValidDates, dur \in SlotDurations :
        LET slots == SlotsFor(d, dur, calendar)
            events == WindowEvents(d, calendar)
        IN \A i \in 1..Len(slots), j \in 1..Len(events) :
              ~OverlapsEvent(SlotStart(slots[i]), SlotStart(slots[i]) + dur, events[j])

----------------------------------------------------------------------------
(* C6 *)

\* C6: get_available_slots returns, in ascending start order, exactly the
\* candidates [09:00 + 30k, 09:00 + 30k + duration) ending by 17:00 that
\* overlap no existing event (half-open).
C6_ExactlyTheFreeCandidates ==
    \A d \in ValidDates, dur \in SlotDurations :
        LET slots == SlotsFor(d, dur, calendar)
            free == {t \in CandidateStarts(d, dur) :
                        \A j \in 1..Len(calendar) :
                            ~OverlapsEvent(t, t + dur, calendar[j])}
        IN /\ {SlotStart(slots[i]) : i \in 1..Len(slots)} = free
           /\ \A i \in 1..Len(slots) - 1 : SlotStart(slots[i]) < SlotStart(slots[i + 1])
           /\ \A i \in 1..Len(slots) :
                 /\ slots[i].start_time = StrftimeHM(SlotStart(slots[i]))
                 /\ slots[i].end_time = StrftimeHM(SlotStart(slots[i]) + dur)

----------------------------------------------------------------------------
(* C7 *)

\* C7: adding events cannot create availability: for the same date and
\* duration, when the events B1 are among the events B2 (here B2 is the
\* calendar and B1 any selection of its events), every slot returned for B2
\* is returned for B1, so B2 yields at most as many slots as B1.
C7_AddingEventsCannotCreateAvailability ==
    \A d \in ValidDates, dur \in SlotDurations :
        LET slots2 == SlotsFor(d, dur, calendar)
        IN \A keep1 \in SUBSET (1..Len(calendar)) :
              LET slots1 == SlotsFor(d, dur, SubCalendar(calendar, keep1, 1))
              IN /\ SeqRange(slots2) \subseteq SeqRange(slots1)
                 /\ Len(slots2) <= Len(slots1)

\* a calendar of two events, each of which removed slots
C7_Witness ==
    /\ Len(calendar) = 2
    /\ \E d \in ValidDates :
          /\ Len(SlotsFor(d, DefaultDuration, calendar))
                < Len(SlotsFor(d, DefaultDuration, SubCalendar(calendar, {1}, 1)))
          /\ Len(SlotsFor(d, DefaultDuration, SubCalendar(calendar, {1}, 1)))
                < Len(SlotsFor(d, DefaultDuration, <<>>))

----------------------------------------------------------------------------
(* Booking steps *)

\* a step in which book_appointment was called (a call that changes neither
\* the record of the last call nor the calendar changes nothing at all)
BookStep ==
    /\ lastCall'.tool = "book_appointment"
    /\ <<lastCall, calendar>>' # <<lastCall, calendar>>

\* the arguments of the booking call of a BookStep, and the interval asked for
BookArgsParse == BookingParses(lastCall'.args[2], lastCall'.args[3], lastCall'.args[4])
BookFrom == Strptime(lastCall'.args[2]) + TimeOfDay(lastCall'.args[3])
BookTo == BookFrom + IntOf(lastCall'.args[4])

\* the call reported failure and the calendar is as it was
BookRejected == lastCall'.returned.kind # "Booked" /\ calendar' = calendar

----------------------------------------------------------------------------
(* C2 *)

\* C2: a booking whose interval overlaps an event already in the calendar
\* returns a failure message and creates no event.
C2_BookingIntoBusyIntervalIsRejected ==
    [][(/\ BookStep
        /\ BookArgsParse
        /\ \E j \in 1..Len(calendar) : OverlapsEvent(BookFrom, BookTo, calendar[j]))
       => BookRejected]_vars

----------------------------------------------------------------------------
(* C3 *)

\* every booking call adds exactly one event when it reports success and
\* leaves the calendar alone otherwise, issuing at most one insert request
C3_Step ==
    BookStep =>
        /\ lastCall'.returned.requests <= 1
        /\ IF lastCall'.returned.kind = "Booked"
           THEN /\ Len(calendar') = Len(calendar) + 1
                /\ SubSeq(calendar', 1, Len(calendar)) = calendar
                /\ lastCall'.returned.requests = 1
           ELSE calendar' = calendar

\* the events added so far are as many as the calls that reported success
C3_Count == Len(calendar) = preexisting + successes

\* C3: a booking call adds exactly one event to the backend when it reports
\* success and none when it reports failure, with at most one creation
\* request per call; so the number of events added always equals the number
\* of calls that reported success.
C3_OneEventPerSuccessfulBooking == []C3_Count /\ [][C3_Step]_vars

\* a success and, after it, a failed call against a failing backend
C3_Witness ==
    /\ successes >= 1
    /\ lastCall.tool = "book_appointment"
    /\ lastCall.returned.kind = "FailedToBook"
    /\ Len(calendar) = preexisting + successes

----------------------------------------------------------------------------
(* C4 *)

\* C4: a booking whose start is not strictly before its end (zero or
\* negative minutes) or whose start is in the past is rejected with a
\* failure result and no event is created.
C4_InvalidIntervalIsRejected ==
    [][(/\ BookStep
        /\ BookArgsParse
        /\ (BookTo <= BookFrom \/ BookFrom < now))
       => BookRejected]_vars

----------------------------------------------------------------------------
(* C5 *)

ToolNames == {"check_availability", "book_appointment", "get_events_for_date"}
EmptyResultKinds == {"NoSlots", "NoEvents"}

\* C5: when the backend fails during a tool operation, the text returned
\* reports the failure with its cause and is not the text of a successful
\* but empty result.
C5_BackendFailureIsReported ==
    (lastCall.tool \in ToolNames /\ lastCall.raised # NoFailure) =>
        /\ lastCall.returned.kind \notin EmptyResultKinds
        /\ "cause" \in DOMAIN lastCall.returned
        /\ lastCall.returned.cause = lastCall.raised

----------------------------------------------------------------------------
(* C8 *)

\* both sessions had the slot in their listing when their agents called
\* book_appointment for it
BothBookedSlotTheySaw(s1, s2) ==
    /\ s1 # s2
    /\ booked[s1].made /\ booked[s2].made
    /\ booked[s1].seen /\ booked[s2].seen
    /\ booked[s1].date = booked[s2].date
    /\ booked[s1].time = booked[s2].time
    /\ booked[s1].duration = booked[s2].duration

\* two events of the calendar occupy the interval booked by s
TwoEventsInSlotOf(s) ==
    LET from == Strptime(booked[s].date) + TimeOfDay(booked[s].time)
        to == from + IntOf(booked[s].duration)
    IN \E i, j \in 1..Len(calendar) :
          /\ i < j
          /\ Instant(calendar[i].start, tzOffset) = from
          /\ Instant(calendar[i].end, tzOffset) = to
          /\ Instant(calendar[j].start, tzOffset) = from
          /\ Instant(calendar[j].end, tzOffset) = to
          /\ Overlaps(from, to, from, to)

\* C8: when two sessions each see the same slot as free and each books it,
\* both bookings report success and the calendar holds two overlapping
\* events: nothing re-checks or locks the slot between listing and creation.
C8_ConcurrentBookingsCollide ==
    \A s1, s2 \in SessionIds :
        BothBookedSlotTheySaw(s1, s2) =>
            /\ booked[s1].kind = "Booked"
            /\ booked[s2].kind = "Booked"
            /\ TwoEventsInSlotOf(s1)

----------------------------------------------------------------------------
(* C9 *)

\* every memory is human, ai, human, ai, ...
C9_Alternating ==
    \A s \in DOMAIN sessions :
        /\ Len(sessions[s]) % 2 = 0
        /\ \A i \in 1..Len(sessions[s]) :
              sessions[s][i].type = (IF i % 2 = 1 THEN "human" ELSE "ai")

C9_Step ==
    LET served == IF active # NoRequest THEN active.session ELSE active'.session
    IN /\ DOMAIN sessions \subseteq DOMAIN sessions'
       /\ \A x \in DOMAIN sessions' :
             x # served => x \in DOMAIN sessions /\ sessions'[x] = sessions[x]
       \* entry: the memory exists afterwards, empty when new
       /\ (active = NoRequest /\ active' # NoRequest) =>
             /\ served \in DOMAIN sessions'
             /\ sessions'[served] =
                   (IF served \in DOMAIN sessions THEN sessions[served] ELSE <<>>)
       \* the invocation succeeded: the message, then the reply
       /\ (active # NoRequest /\ active' = NoRequest
             /\ lastCall'.returned.kind = "Output") =>
             sessions'[served] = sessions[served]
                \o <<HumanMessage(active.message), AIMessage(lastCall'.returned.content)>>
       \* the invocation failed: nothing
       /\ (active # NoRequest /\ active' = NoRequest
             /\ lastCall'.returned.kind # "Output") =>
             sessions' = sessions
       \* anything else leaves every memory alone
       /\ active' = active => sessions' = sessions

\* C9: process_message(message, s) creates the memory of s on first use,
\* appends the user message followed by the reply when the invocation
\* succeeds and nothing when it fails, and never changes another session's
\* memory; so every memory is an alternating human/ai sequence of even length.
C9_SessionMemoriesIndependent == []C9_Alternating /\ [][C9_Step]_vars

\* one session with two exchanges, another created by a call that failed
C9_Witness ==
    \E s1, s2 \in DOMAIN sessions :
        /\ s1 # s2
        /\ Len(sessions[s1]) = 4
        /\ Len(sessions[s2]) = 0
        /\ active = NoRequest
        /\ lastCall.tool = "process_message"
        /\ lastCall.args[2] = s2
        /\ lastCall.returned.kind = "Apology"

----------------------------------------------------------------------------
(* C10 *)

\* C10: check_availability lists the first SlotLimit (8) slots that
\* get_available_slots returns for a 60-minute duration, in order, and none
\* of the later ones.
C10_AtMostEightEarliestSlots ==
    (lastCall.tool = "check_availability" /\ lastCall.raised = NoFailure
        /\ DateParses(lastCall.args[1])) =>
        LET slots == SlotsFor(lastCall.args[1], DefaultDuration, calendar)
            text == lastCall.returned
        IN IF slots = <<>>
           THEN text.kind = "NoSlots"
           ELSE /\ text.kind = "Available"
                /\ Len(text.lines) <= SlotLimit
                /\ Len(text.lines) = (IF Len(slots) < SlotLimit THEN Len(slots)
                                      ELSE SlotLimit)
                /\ \A i \in 1..Len(text.lines) :
                      /\ text.lines[i] = <<slots[i].start_time, slots[i].end_time>>
                      /\ text.lines[i][2] =
                            StrftimeHM(SlotStart(slots[i]) + DefaultDuration)
                /\ \A i \in 1..Len(slots) :
                      i > SlotLimit =>
                         <<slots[i].start_time, slots[i].end_time>>
                            \notin SeqRange(text.lines)

\* more than eight slots are free and eight are listed
C10_Witness ==
    /\ lastCall.tool = "check_availability"
    /\ lastCall.returned.kind = "Available"
    /\ Len(lastCall.returned.lines) = SlotLimit
    /\ Len(SlotsFor(lastCall.args[1], DefaultDuration, calendar)) > SlotLimit

====
